---- MODULE Spec2Model ----
(***************************************************************************)
(* Model of src/main.cc: the boids flock (Boid::update, update_boids,      *)
(* generate_random_boids) and the main loop that drives it.                *)
(*                                                                         *)
(* Number representation.  The program computes in float; the model uses   *)
(* fixed point.  Positions are whole pixels, headings are whole multiples  *)
(* of 1/DegUnit degree, every float division rounds to the nearest         *)
(* representable value (RoundDiv), sin/cos are read from a one-degree      *)
(* table scaled by TrigScale and atan2 answers the nearest whole degree.   *)
(* dt is a whole number of milliseconds.                                   *)
(***************************************************************************)
EXTENDS Integers, Sequences, FiniteSets, TLC

(***************************************************************************)
(* Bounds of the model.                                                    *)
(***************************************************************************)
MaxBoids == 3        \* flock sizes 1..MaxBoids stand for std::array<Boid, 40>
MaxTicks == 1        \* iterations of the main loop that are explored

(***************************************************************************)
(* Program constants.                                                      *)
(***************************************************************************)
InitialWidth == 800
InitialHeight == 600
DefaultSize == 10
DefaultMoveSpeed == 200
DefaultSeparationDistanceFactor == 3
DefaultAlignmentDistanceFactor == 9
DefaultCohesionDistanceFactor == 14

(***************************************************************************)
(* Fixed-point arithmetic.                                                 *)
(***************************************************************************)
DegUnit == 1000
TrigScale == 10000
MsPerSecond == 1000

\* a / b rounded to the nearest integer (b > 0), as a float division rounds
RoundDiv(a, b) == (2 * a + b) \div (2 * b)

\* sin(k degrees) * TrigScale for k = 0..90
SinTab ==
  << 0, 175, 349, 523, 698, 872, 1045, 1219, 1392, 1564, 1736, 1908, 2079,
     2250, 2419, 2588, 2756, 2924, 3090, 3256, 3420, 3584, 3746, 3907, 4067,
     4226, 4384, 4540, 4695, 4848, 5000, 5150, 5299, 5446, 5592, 5736, 5878,
     6018, 6157, 6293, 6428, 6561, 6691, 6820, 6947, 7071, 7193, 7314, 7431,
     7547, 7660, 7771, 7880, 7986, 8090, 8192, 8290, 8387, 8480, 8572, 8660,
     8746, 8829, 8910, 8988, 9063, 9135, 9205, 9272, 9336, 9397, 9455, 9511,
     9563, 9613, 9659, 9703, 9744, 9781, 9816, 9848, 9877, 9903, 9925, 9945,
     9962, 9976, 9986, 9994, 9998, 10000 >>

\* sin of a whole number of degrees k in 0..359, scaled by TrigScale
SinDeg(k) ==
  IF k <= 90 THEN SinTab[k + 1]
  ELSE IF k <= 180 THEN SinTab[180 - k + 1]
  ELSE IF k <= 270 THEN 0 - SinTab[k - 180 + 1]
  ELSE 0 - SinTab[360 - k + 1]

CosDeg(k) == SinDeg((k + 90) % 360)

\* the whole degree in 0..359 nearest to a heading given in 1/DegUnit degree
WholeDegree(rot) == RoundDiv(rot, DegUnit) % 360

\* the whole degree in 0..90 whose direction is nearest to (ax, ay), for
\* ax >= 0 and ay >= 0: a maximum of the projection of (ax, ay) on it
FirstQuadrantDegree(ax, ay) ==
  LET proj(k) == ax * CosDeg(k) + ay * SinDeg(k)
  IN  CHOOSE k \in 0..90 : /\ (k = 90 \/ proj(k) >= proj(k + 1))
                           /\ (k = 0 \/ proj(k) >= proj(k - 1))

\* rad2deg(std::atan2(y, x)) in 1/DegUnit degree, to the nearest whole
\* degree of -180..180; atan2(0, 0) is 0
rad2deg_atan2(y, x) ==
  IF x = 0 /\ y = 0 THEN 0
  ELSE LET ax == IF x < 0 THEN 0 - x ELSE x
           ay == IF y < 0 THEN 0 - y ELSE y
           k0 == FirstQuadrantDegree(ax, ay)
           k1 == IF x < 0 THEN 180 - k0 ELSE k0
       IN  (IF y < 0 THEN 0 - k1 ELSE k1) * DegUnit

\* distance_2d(a, b) squared; sqrt is monotone, so for a radius d > 0
\* distance_2d(a, b) < d  <=>  distance_2d_sq(a, b) < d * d
distance_2d_sq(a, b) ==
  (a.x - b.x) * (a.x - b.x) + (a.y - b.y) * (a.y - b.y)

(***************************************************************************)
(* class Boid                                                              *)
(***************************************************************************)
Boid(pos, rot, col) ==
  [ pos_ |-> pos, rot_ |-> rot, col_ |-> col,
    size_ |-> DefaultSize,
    move_speed_ |-> DefaultMoveSpeed,
    kSeparationDistanceFactor |-> DefaultSeparationDistanceFactor,
    kAlignmentDistanceFactor |-> DefaultAlignmentDistanceFactor,
    kCohesionDistanceFactor |-> DefaultCohesionDistanceFactor ]

cohesion_distance(b) == b.size_ * b.kCohesionDistanceFactor
alignment_distance(b) == b.size_ * b.kAlignmentDistanceFactor
separation_distance(b) == b.size_ * b.kSeparationDistanceFactor

\* get_flockmates telling a flockmate by a distance above 0: the boid itself
\* is left out
get_flockmates_ExcludingSelf(pos, boids, distance) ==
  SelectSeq(boids,
            LAMBDA m : /\ distance > 0
                       /\ 0 < distance_2d_sq(pos, m.pos_)
                       /\ distance_2d_sq(pos, m.pos_) < distance * distance)

\* get_flockmates with the comparison turned round
get_flockmates_Beyond(pos, boids, distance) ==
  SelectSeq(boids,
            LAMBDA m : distance_2d_sq(pos, m.pos_) > distance * distance)

\* the members of the sequence boids nearer to pos than distance, in order
get_flockmates(pos, boids, distance) ==
  SelectSeq(boids,
            LAMBDA m : distance > 0
                       /\ distance_2d_sq(pos, m.pos_) < distance * distance)

RECURSIVE AccumulateX(_, _, _)
AccumulateX(boids, k, n) ==
  IF k = 0 THEN 0
  ELSE AccumulateX(boids, k - 1, n) + RoundDiv(boids[k].pos_.x, n)

RECURSIVE AccumulateY(_, _, _)
AccumulateY(boids, k, n) ==
  IF k = 0 THEN 0
  ELSE AccumulateY(boids, k - 1, n) + RoundDiv(boids[k].pos_.y, n)

\* std::accumulate from sf::Vector2f() adding pos / boids.size() per member
center_of_mass(boids) ==
  [ x |-> AccumulateX(boids, Len(boids), Len(boids)),
    y |-> AccumulateY(boids, Len(boids), Len(boids)) ]

RECURSIVE AccumulateRot(_, _, _)
AccumulateRot(boids, k, n) ==
  IF k = 0 THEN 0
  ELSE AccumulateRot(boids, k - 1, n) + RoundDiv(boids[k].rot_, n)

\* the accumulation without the division by the size
kAverageRotation_NoDivision(boids) == AccumulateRot(boids, Len(boids), 1)

\* std::accumulate from 0.0f adding rot_ / kAlignmentFlockmates.size()
kAverageRotation(boids) == AccumulateRot(boids, Len(boids), Len(boids))

\* rotation.transformPoint(0, -kDeltaSpeed) with rotation.rotate(rot)
transformPoint(rot, kDeltaSpeed) ==
  [ x |-> RoundDiv(kDeltaSpeed * SinDeg(WholeDegree(rot)), TrigScale),
    y |-> RoundDiv((0 - kDeltaSpeed) * CosDeg(WholeDegree(rot)), TrigScale) ]

\* the upper test written >= : a boid on the bound is sent to 0
WrapAxis_AtBound(c, bound) ==
  LET c1 == IF c < 0 THEN bound ELSE c
  IN  IF c1 >= bound THEN 0 ELSE c1

\* the upper test left out
WrapAxis_NoUpper(c, bound) == IF c < 0 THEN bound ELSE c

\* the two tests applied to one coordinate, in the order of the code
WrapAxis(c, bound) ==
  LET c1 == IF c < 0 THEN bound ELSE c
  IN  IF c1 > bound THEN 0 ELSE c1

\* position after "pos_ += ..." and before the wrap tests
MovedPos(b, dt) ==
  LET kDeltaSpeed == RoundDiv(b.move_speed_ * dt, MsPerSecond)
      d == transformPoint(b.rot_, kDeltaSpeed)
  IN  [ x |-> b.pos_.x + d.x, y |-> b.pos_.y + d.y ]

UpdatePosition(b, dt, window_size) ==
  LET raw == MovedPos(b, dt)
  IN  [ x |-> WrapAxis(raw.x, window_size[1]),
        y |-> WrapAxis(raw.y, window_size[2]) ]

\* the alignment rule tested before the separation rule
Steer_AlignmentFirst(self, coh, ali, sep) ==
  IF Len(coh) = 1 THEN [ branch |-> "return", rot |-> self.rot_ ]
  ELSE IF Len(ali) > 1
  THEN [ branch |-> "alignment", rot |-> kAverageRotation(ali) ]
  ELSE IF Len(sep) > 1
  THEN [ branch |-> "separation",
         rot |-> rad2deg_atan2(center_of_mass(sep).y - self.pos_.y,
                               center_of_mass(sep).x - self.pos_.x)
                 + 90 * DegUnit + 180 * DegUnit ]
  ELSE [ branch |-> "cohesion",
         rot |-> rad2deg_atan2(center_of_mass(coh).y - self.pos_.y,
                               center_of_mass(coh).x - self.pos_.x)
                 + 90 * DegUnit ]

\* no early return and the cohesion rule tested with >= 1: a boid alone
\* steers to its own position
Steer_SteersAlone(self, coh, ali, sep) ==
  IF Len(sep) > 1
  THEN [ branch |-> "separation",
         rot |-> rad2deg_atan2(center_of_mass(sep).y - self.pos_.y,
                               center_of_mass(sep).x - self.pos_.x)
                 + 90 * DegUnit + 180 * DegUnit ]
  ELSE IF Len(ali) > 1
  THEN [ branch |-> "alignment", rot |-> kAverageRotation(ali) ]
  ELSE IF Len(coh) >= 1
  THEN [ branch |-> IF Len(coh) = 1 THEN "return" ELSE "cohesion",
         rot |-> rad2deg_atan2(center_of_mass(coh).y - self.pos_.y,
                               center_of_mass(coh).x - self.pos_.x)
                 + 90 * DegUnit ]
  ELSE [ branch |-> "none", rot |-> self.rot_ ]

\* lines 63-102 of Boid::update: the three tiers of the moved boid self, read
\* from the collection boids, and the heading the priority rule selects
Steer(self, coh, ali, sep) ==
  IF Len(coh) = 1 THEN [ branch |-> "return", rot |-> self.rot_ ]
  ELSE LET kCohesionFlockmateCenterOfMass == center_of_mass(coh)
           kSeparationFlockmateCenterOfMass == center_of_mass(sep)
       IN  IF Len(sep) > 1
           THEN [ branch |-> "separation",
                  rot |-> rad2deg_atan2(
                            kSeparationFlockmateCenterOfMass.y - self.pos_.y,
                            kSeparationFlockmateCenterOfMass.x - self.pos_.x)
                          + 90 * DegUnit + 180 * DegUnit ]
           ELSE IF Len(ali) > 1
           THEN [ branch |-> "alignment", rot |-> kAverageRotation(ali) ]
           ELSE IF Len(coh) > 1
           THEN [ branch |-> "cohesion",
                  rot |-> rad2deg_atan2(
                            kCohesionFlockmateCenterOfMass.y - self.pos_.y,
                            kCohesionFlockmateCenterOfMass.x - self.pos_.x)
                          + 90 * DegUnit ]
           ELSE [ branch |-> "none", rot |-> self.rot_ ]

\* One call boids[i].update(dt, boids, window_size).  this aliases boids[i],
\* so get_flockmates reads the collection with the moved boid in place.
\* The result carries the locals of the call next to the updated boid.
BoidUpdate(boids, i, dt, window_size) ==
  LET raw == MovedPos(boids[i], dt)
      self == [boids[i] EXCEPT !.pos_ = UpdatePosition(boids[i], dt, window_size)]
      seen == [boids EXCEPT ![i] = self]
      kCohesionFlockmates ==
        get_flockmates(self.pos_, seen, cohesion_distance(self))
      returned == Len(kCohesionFlockmates) = 1
      kAlignmentFlockmates ==
        IF returned THEN << >>
        ELSE get_flockmates(self.pos_, kCohesionFlockmates,
                            alignment_distance(self))
      kSeparationFlockmates ==
        IF returned THEN << >>
        ELSE get_flockmates(self.pos_, kAlignmentFlockmates,
                            separation_distance(self))
      steer == Steer(self, kCohesionFlockmates, kAlignmentFlockmates,
                     kSeparationFlockmates)
  IN  [ who |-> i,
        raw |-> raw,
        seen |-> seen,
        coh |-> kCohesionFlockmates,
        ali |-> kAlignmentFlockmates,
        sep |-> kSeparationFlockmates,
        com |-> IF returned THEN << >>
                ELSE << Len(kCohesionFlockmates), Len(kAlignmentFlockmates),
                        Len(kSeparationFlockmates) >>,
        branch |-> steer.branch,
        boid |-> [self EXCEPT !.rot_ = steer.rot] ]

(***************************************************************************)
(* generate_random_boids.  The random draws are taken from four spawns,    *)
(* placed relative to the window size like the draws of the program; Ti    *)
(* are pairwise within alignment range, E is far from all of them and      *)
(* reaches the opposite corner when it leaves the window.                  *)
(***************************************************************************)
Spawns(window_size) ==
  LET W == window_size[1]
      H == window_size[2]
  IN  { Boid([x |-> W - 100, y |-> H - 100], 10 * DegUnit, "red"),
        Boid([x |-> W - 50, y |-> H - 100], 20 * DegUnit, "green"),
        Boid([x |-> W - 75, y |-> H - 60], 30 * DegUnit, "blue"),
        Boid([x |-> 0, y |-> 0], (0 - 45) * DegUnit, "white") }

generate_random_boids(n, window_size) == [1..n -> Spawns(window_size)]

\* window sizes a Resized event may report
SizeChoices == { <<InitialWidth, InitialHeight>>, <<700, 500>> }

\* values of clock.getElapsedTime() in milliseconds
DtChoices == { 0, 10 }

(***************************************************************************)
(* State of main.                                                          *)
(***************************************************************************)
VARIABLES
  boids,        \* Boids boids
  window_size,  \* window.getSize()
  open,         \* window.isOpen()
  pc,           \* "poll": event loop; "update": loop of update_boids;
                \* "done": main loop left
  idx,          \* index of the next boid of the loop of update_boids
  kDt,          \* kDt of the running iteration, in milliseconds
  tick,         \* iterations of the main loop started so far
  tickStart,    \* history: boids when the running update_boids was entered
  resetPop,     \* history: result of the last generate_random_boids since
                \* the previous update_boids, << >> when there was none
  last          \* history: the locals of the last Boid::update call

vars == << boids, window_size, open, pc, idx, kDt, tick, tickStart,
           resetPop, last >>

\* update_boids handing every call the collection of the start of the
\* tick (this boid excepted) in place of the live one
update_boids_step_Snapshot(bs, i, dt, ws) ==
  LET call == BoidUpdate([tickStart EXCEPT ![i] = bs[i]], i, dt, ws)
  IN  [ boids |-> [bs EXCEPT ![i] = call.boid], call |-> call ]

\* update_boids writing the new heading to the following boid as well
update_boids_step_Spill(bs, i, dt, ws) ==
  LET call == BoidUpdate(bs, i, dt, ws)
  IN  [ boids |-> [[bs EXCEPT ![i] = call.boid]
                     EXCEPT ![(i % Len(bs)) + 1].rot_ = call.boid.rot_],
        call |-> call ]

\* the body of the loop of update_boids for the boid at index i
update_boids_step(bs, i, dt, ws) ==
  LET call == BoidUpdate(bs, i, dt, ws)
  IN  [ boids |-> [bs EXCEPT ![i] = call.boid], call |-> call ]

NoCall ==
  [ who |-> 0, raw |-> [x |-> 0, y |-> 0], seen |-> << >>, coh |-> << >>,
    ali |-> << >>, sep |-> << >>, com |-> << >>, branch |-> "nocall",
    boid |-> Boid([x |-> 0, y |-> 0], 0, "none") ]

Init ==
  /\ window_size = <<InitialWidth, InitialHeight>>
  /\ \E n \in 1..MaxBoids : boids \in generate_random_boids(n, window_size)
  /\ open = TRUE
  /\ pc = "poll"
  /\ idx = 0
  /\ kDt = 0
  /\ tick = 0
  /\ tickStart = << >>
  /\ resetPop = << >>
  /\ last = NoCall

\* event.type == sf::Event::Closed
EventClosed ==
  /\ pc = "poll" /\ open
  /\ open' = FALSE
  /\ UNCHANGED << boids, window_size, pc, idx, kDt, tick, tickStart,
                  resetPop, last >>

\* event.type == sf::Event::Resized: the window has its new size
EventResized ==
  /\ pc = "poll" /\ open
  /\ \E ws \in SizeChoices : window_size' = ws
  /\ UNCHANGED << boids, open, pc, idx, kDt, tick, tickStart, resetPop, last >>

\* the assignment reaching the first boid only
EventKeyPressedR_Partial ==
  /\ pc = "poll" /\ open
  /\ \E fresh \in generate_random_boids(Len(boids), window_size) :
       /\ boids' = [boids EXCEPT ![1] = fresh[1]]
       /\ resetPop' = fresh
  /\ UNCHANGED << window_size, open, pc, idx, kDt, tick, tickStart, last >>

\* sf::Keyboard::R pressed: boids = generate_random_boids(window)
EventKeyPressedR ==
  /\ pc = "poll" /\ open
  /\ \E fresh \in generate_random_boids(Len(boids), window_size) :
       /\ boids' = fresh
       /\ resetPop' = fresh
  /\ UNCHANGED << window_size, open, pc, idx, kDt, tick, tickStart, last >>

\* pollEvent returns false; kDt is read and update_boids is entered
BeginUpdate ==
  /\ pc = "poll"
  /\ tick < MaxTicks
  /\ \E d \in DtChoices : kDt' = d
  /\ pc' = "update"
  /\ idx' = 1
  /\ tick' = tick + 1
  /\ tickStart' = boids
  /\ UNCHANGED << boids, window_size, open, resetPop, last >>

\* one iteration of "for (auto& boid : boids) boid.update(...)"
UpdateBoid ==
  /\ pc = "update"
  /\ idx <= Len(boids)
  /\ LET step == update_boids_step(boids, idx, kDt, window_size)
     IN  /\ boids' = step.boids
         /\ last' = step.call
  /\ idx' = idx + 1
  /\ UNCHANGED << window_size, open, pc, kDt, tick, tickStart, resetPop >>

\* the loop of update_boids is over; draw_boids and display change no state;
\* the main loop tests window.isOpen()
DrawAndLoop ==
  /\ pc = "update"
  /\ idx > Len(boids)
  /\ pc' = IF open THEN "poll" ELSE "done"
  /\ idx' = 0
  /\ tickStart' = << >>
  /\ resetPop' = << >>
  /\ last' = NoCall
  /\ UNCHANGED << boids, window_size, open, kDt, tick >>

Next ==
  \/ EventClosed
  \/ EventResized
  \/ EventKeyPressedR
  \/ BeginUpdate
  \/ UpdateBoid
  \/ DrawAndLoop

Spec == Init /\ [][Next]_vars

TypeOK ==
  /\ pc \in {"poll", "update", "done"}
  /\ Len(boids) \in 1..MaxBoids
  /\ idx \in 0..(Len(boids) + 1)

(***************************************************************************)
(* Vocabulary of the properties.  The tier sets are recomputed here by     *)
(* independent scans of the whole collection the call read, not by the     *)
(* narrowing of Boid::update.                                              *)
(***************************************************************************)
Called == last.who # 0

\* the boid of the last call after its position update, heading not yet set
MovedSelf == last.seen[last.who]

Range(seq) == { seq[k] : k \in DOMAIN seq }

WithinRadius(radius) ==
  SelectSeq(last.seen,
            LAMBDA m : distance_2d_sq(MovedSelf.pos_, m.pos_) < radius * radius)

CohesionSet == WithinRadius(DefaultSize * DefaultCohesionDistanceFactor)
AlignmentSet == WithinRadius(DefaultSize * DefaultAlignmentDistanceFactor)
SeparationSet == WithinRadius(DefaultSize * DefaultSeparationDistanceFactor)

\* 3 * mean, by plain summation
SumOf(seq, f(_)) ==
  LET S[k \in 0..Len(seq)] == IF k = 0 THEN 0 ELSE S[k - 1] + f(seq[k])
  IN  S[Len(seq)]

\* |n * result - sum| <= n: result is the mean of the n values up to the
\* rounding of the n divisions
IsMeanOf(result, seq, f(_)) ==
  LET diff == Len(seq) * result - SumOf(seq, f)
  IN  diff <= Len(seq) /\ 0 - diff <= Len(seq)

RotOf(b) == b.rot_

\* the heading "angle from MovedSelf to the centre of mass of seq, plus
\* offset degrees"
AngleToCentreOf(seq, offset) ==
  LET centre == center_of_mass(seq)
  IN  rad2deg_atan2(centre.y - MovedSelf.pos_.y, centre.x - MovedSelf.pos_.x)
      + offset * DegUnit

TickOver == pc = "update" /\ idx > Len(boids)

InBounds(pos) ==
  /\ 0 <= pos.x /\ pos.x <= window_size[1]
  /\ 0 <= pos.y /\ pos.y <= window_size[2]

(***************************************************************************)
(* C1.  Boid::update selects the heading by strict priority over the three *)
(* tier sets of the moved boid: cohesion set of one member, heading not    *)
(* written; else separation set of more than one member, angle to the      *)
(* separation centre + 90 + 180 whatever the other sets hold; else         *)
(* alignment set of more than one member, linear mean of its headings;     *)
(* else angle to the cohesion centre + 90.  Exactly one of the four        *)
(* happens in every call.                                                  *)
(***************************************************************************)
C1_StrictPriority ==
  Called =>
    /\ last.branch \in {"return", "separation", "alignment", "cohesion"}
    /\ last.branch = "return" <=> Len(CohesionSet) = 1
    /\ last.branch = "separation" <=>
         (Len(CohesionSet) # 1 /\ Len(SeparationSet) > 1)
    /\ last.branch = "alignment" <=>
         (Len(CohesionSet) # 1 /\ Len(SeparationSet) <= 1
          /\ Len(AlignmentSet) > 1)
    /\ Len(CohesionSet) = 1 => last.boid.rot_ = MovedSelf.rot_
    /\ (Len(CohesionSet) # 1 /\ Len(SeparationSet) > 1) =>
         last.boid.rot_ = AngleToCentreOf(SeparationSet, 90 + 180)
    /\ (Len(CohesionSet) # 1 /\ Len(SeparationSet) <= 1
        /\ Len(AlignmentSet) > 1) =>
         last.boid.rot_ = kAverageRotation(AlignmentSet)
    /\ (Len(CohesionSet) # 1 /\ Len(SeparationSet) <= 1
        /\ Len(AlignmentSet) <= 1) =>
         /\ last.branch = "cohesion"
         /\ last.boid.rot_ = AngleToCentreOf(CohesionSet, 90)

\* the separation rule won although the alignment set and the cohesion set
\* held a boid outside separation range and their rules would have set
\* another heading
C1_Witness ==
  /\ Called
  /\ last.branch = "separation"
  /\ Len(AlignmentSet) > Len(SeparationSet)
  /\ Len(CohesionSet) >= Len(AlignmentSet)
  /\ last.boid.rot_ # kAverageRotation(AlignmentSet)
  /\ last.boid.rot_ # AngleToCentreOf(CohesionSet, 90)

(***************************************************************************)
(* C2.  The scenario: a flock of three with headings 10, 20 and 30         *)
(* degrees at the start of the tick, every two of them within alignment    *)
(* range and outside separation range wherever they stand during the tick. *)
(***************************************************************************)
AlignedApart(p, q) ==
  LET d2 == distance_2d_sq(p, q)
      sepd == DefaultSize * DefaultSeparationDistanceFactor
      alid == DefaultSize * DefaultAlignmentDistanceFactor
  IN  sepd * sepd <= d2 /\ d2 < alid * alid

ThreeAligned ==
  /\ TickOver
  /\ Len(boids) = 3
  /\ { tickStart[k].rot_ : k \in 1..3 } = { 10 * DegUnit, 20 * DegUnit, 30 * DegUnit }
  /\ \A i, k \in 1..3 : i # k =>
       \A p \in { tickStart[i].pos_, boids[i].pos_ } :
         \A q \in { tickStart[k].pos_, boids[k].pos_ } : AlignedApart(p, q)

\* C2 as claimed: after the tick each of the three headings is 20 degrees
C2_Original ==
  ThreeAligned => \A k \in 1..3 : boids[k].rot_ = 20 * DegUnit

\* C2 as amended: the boid processed first gets the mean 20 of the three
\* headings; every later boid gets the mean of the headings as they stand
\* when it is processed, those of the boids before it already updated; the
\* three resulting headings are never all 20
C2_Amended ==
  ThreeAligned =>
    /\ boids[1].rot_ = 20 * DegUnit
    /\ IsMeanOf(boids[2].rot_, << boids[1], tickStart[2], tickStart[3] >>, RotOf)
    /\ IsMeanOf(boids[3].rot_, << boids[1], boids[2], tickStart[3] >>, RotOf)
    /\ \E k \in 2..3 : boids[k].rot_ # 20 * DegUnit

\* the scenario with the boids moving, in index order 10, 20, 30
C2_Witness ==
  /\ ThreeAligned
  /\ kDt > 0
  /\ tickStart[1].rot_ = 10 * DegUnit
  /\ tickStart[2].rot_ = 20 * DegUnit
  /\ boids[2].rot_ > 23 * DegUnit

(***************************************************************************)
(* C3.  In every call the separation set is within the alignment set, the  *)
(* alignment set within the cohesion set, the cohesion set within the      *)
(* flock; the boid itself is in every tier that is computed, so every      *)
(* computed tier has a member, and a cohesion set of one member is the     *)
(* boid itself.                                                            *)
(***************************************************************************)
C3_TierNesting ==
  Called =>
    /\ Range(last.coh) \subseteq Range(last.seen)
    /\ Len(last.seen) = Len(boids)
    /\ \A k \in 1..Len(boids) : k # last.who => last.seen[k] = boids[k]
    /\ MovedSelf \in Range(last.coh)
    /\ Len(last.coh) >= 1
    /\ Len(last.coh) = 1 => last.coh = << MovedSelf >>
    /\ Len(last.coh) # 1 =>
         /\ Range(last.sep) \subseteq Range(last.ali)
         /\ Range(last.ali) \subseteq Range(last.coh)
         /\ Len(last.sep) <= Len(last.ali)
         /\ Len(last.ali) <= Len(last.coh)
         /\ MovedSelf \in Range(last.ali)
         /\ MovedSelf \in Range(last.sep)
         /\ last.coh = CohesionSet
         /\ last.ali = AlignmentSet
         /\ last.sep = SeparationSet

\* three tiers of three different sizes, the innermost the boid alone
C3_Witness ==
  /\ Called
  /\ Len(last.sep) = 1
  /\ Len(last.ali) = 2
  /\ Len(last.coh) = 3

(***************************************************************************)
(* C4.  update_boids processes the boids in index order against the live   *)
(* collection: the call for boid j reads, for every i < j, the position    *)
(* and heading i was given in this tick and, for every k > j, the state k  *)
(* had when the tick began; its tiers and its result are those of that     *)
(* mixed collection.                                                       *)
(***************************************************************************)
\* the collection as the claim describes it for the call of boid j
LiveAt(j) ==
  SubSeq(boids, 1, j - 1) \o SubSeq(tickStart, j, Len(tickStart))

C4_LiveCollection ==
  (pc = "update" /\ Called) =>
    /\ idx = last.who + 1
    /\ \A i \in 1..Len(boids) : i < last.who => last.seen[i] = boids[i]
    /\ \A k \in 1..Len(boids) : k > last.who => last.seen[k] = tickStart[k]
    /\ \A k \in 1..Len(boids) : k > last.who => boids[k] = tickStart[k]
    /\ LET call == BoidUpdate(LiveAt(last.who), last.who, kDt, window_size)
       IN  /\ boids[last.who] = call.boid
           /\ last.coh = call.coh
           /\ last.ali = call.ali
           /\ last.sep = call.sep

\* a boid processed earlier in the tick was moved and turned, is in the
\* alignment set of the running call, and the running call's heading is not
\* the one the states of the start of the tick would have given
C4_Witness ==
  /\ pc = "update" /\ Called
  /\ last.who > 1
  /\ \E i \in 1..(last.who - 1) :
       /\ boids[i].pos_ # tickStart[i].pos_
       /\ boids[i].rot_ # tickStart[i].rot_
       /\ boids[i] \in Range(last.ali)
  /\ last.branch = "alignment"
  /\ boids[last.who].rot_ #
       BoidUpdate(tickStart, last.who, kDt, window_size).boid.rot_

(***************************************************************************)
(* C5.  The wrap of the position update treats each axis on its own: a     *)
(* coordinate below 0 becomes the bound, a coordinate above the bound      *)
(* becomes 0, a coordinate in [0, bound], the bound included, is kept.     *)
(***************************************************************************)
WrappedAs(c, bound, result) ==
  /\ c < 0 => result = bound
  /\ c > bound => result = 0
  /\ (0 <= c /\ c <= bound) => result = c

C5_WrapRule ==
  Called =>
    /\ last.raw = MovedPos(tickStart[last.who], kDt)
    /\ WrappedAs(last.raw.x, window_size[1], last.boid.pos_.x)
    /\ WrappedAs(last.raw.y, window_size[2], last.boid.pos_.y)

\* a boid that moved, stands exactly on the right bound and is left there
C5_Witness ==
  /\ Called
  /\ last.raw # tickStart[last.who].pos_
  /\ last.raw.x = window_size[1]
  /\ last.boid.pos_.x = window_size[1]

\* x = -1 becomes the width 800
C5_WitnessBelow ==
  /\ Called
  /\ last.raw.x = 0 - 1 /\ window_size[1] = 800 /\ last.boid.pos_.x = 800

\* x above the width becomes 0
C5_WitnessAbove ==
  /\ Called
  /\ last.raw.x > window_size[1] /\ last.boid.pos_.x = 0

(***************************************************************************)
(* C6.  A boid whose cohesion set holds only itself keeps its heading in   *)
(* that call and is still moved along it; a flock of one boid never        *)
(* changes heading in a tick.                                              *)
(***************************************************************************)
C6_LoneBoidKeepsHeading ==
  /\ (Called /\ Len(CohesionSet) = 1) =>
       /\ boids[last.who].rot_ = tickStart[last.who].rot_
       /\ boids[last.who].pos_ =
            UpdatePosition(tickStart[last.who], kDt, window_size)
  /\ (pc = "update" /\ Len(boids) = 1) =>
       boids[1].rot_ = tickStart[1].rot_

\* a boid of a flock of several, out of cohesion range of all the others,
\* has been moved and has kept its heading
C6_Witness ==
  /\ Called
  /\ Len(boids) > 1
  /\ Len(CohesionSet) = 1
  /\ boids[last.who].pos_ # tickStart[last.who].pos_
  /\ boids[last.who].rot_ = tickStart[last.who].rot_

\* the flock of one after its tick
C6_WitnessSingle ==
  /\ TickOver
  /\ Len(boids) = 1
  /\ boids[1].pos_ # tickStart[1].pos_

(***************************************************************************)
(* C7.  A reset replaces the whole collection between ticks: the tick that *)
(* follows it starts from exactly the generated population, and while it   *)
(* runs every boid not yet processed is the generated one.                 *)
(***************************************************************************)
C7_ResetIsAtomic ==
  /\ resetPop # << >> =>
       /\ Len(boids) = Len(resetPop)
       /\ pc = "poll" => boids = resetPop
       /\ pc = "update" =>
            /\ tickStart = resetPop
            /\ \A k \in 1..Len(boids) : k >= idx => boids[k] = resetPop[k]
  /\ pc = "update" =>
       \A k \in 1..Len(boids) : k >= idx => boids[k] = tickStart[k]

\* a tick running on a generated population that differs from it by the
\* boids processed so far only
C7_Witness ==
  /\ pc = "update"
  /\ resetPop # << >>
  /\ idx = 2
  /\ Len(boids) > 1
  /\ boids[1] # resetPop[1]

(***************************************************************************)
(* C8.  center_of_mass is never called with an empty set: whenever the     *)
(* cohesion set has more than one member all three centres are computed    *)
(* and each of the three sets has a member.                                *)
(***************************************************************************)
C8_CenterOfMassNonEmpty ==
  Called =>
    /\ \A k \in DOMAIN last.com : last.com[k] >= 1
    /\ Len(last.coh) > 1 => Len(last.com) = 3
    /\ Len(last.coh) >= 1

\* the three centres were computed and the separation set is the smallest
\* there can be
C8_Witness ==
  /\ Called
  /\ Len(last.com) = 3
  /\ last.com[3] = 1
  /\ last.com[1] > 1

(***************************************************************************)
(* C10.  After a call with the window size (W, H) the boid stands in       *)
(* [0, W] x [0, H], wherever it started; when the tick is over every boid  *)
(* stands in the bounds the tick used, also after the window shrank.       *)
(***************************************************************************)
C10_InBounds ==
  /\ Called => InBounds(boids[last.who].pos_)
  /\ pc = "update" =>
       \A k \in 1..Len(boids) : k < idx => InBounds(boids[k].pos_)

\* the tick is over and a boid the shrunk window had left outside is inside
C10_Witness ==
  /\ TickOver
  /\ \E k \in 1..Len(boids) :
       /\ ~InBounds(tickStart[k].pos_)
       /\ InBounds(boids[k].pos_)

(***************************************************************************)
(* C9.  One update_boids updates every boid once, in index order; the      *)
(* update of boid i changes the position and the heading of boid i and     *)
(* nothing of any other boid; it changes no size, speed, radius factor or  *)
(* colour; the collection keeps its cardinality.                           *)
(***************************************************************************)
SameButPosRot(b, c) ==
  [c EXCEPT !.pos_ = b.pos_, !.rot_ = b.rot_] = b

C9_Step ==
  /\ Len(boids') = Len(boids)
  /\ \A k \in 1..Len(boids) :
       /\ boids'[k].size_ = boids[k].size_
       /\ boids'[k].move_speed_ = boids[k].move_speed_
       /\ boids'[k].kSeparationDistanceFactor = boids[k].kSeparationDistanceFactor
       /\ boids'[k].kAlignmentDistanceFactor = boids[k].kAlignmentDistanceFactor
       /\ boids'[k].kCohesionDistanceFactor = boids[k].kCohesionDistanceFactor
  /\ (pc = "poll" /\ pc' = "update") => (idx' = 1 /\ boids' = boids)
  /\ (pc = "update" /\ idx <= Len(boids)) =>
       /\ pc' = "update"
       /\ idx' = idx + 1
       /\ SameButPosRot(boids[idx], boids'[idx])
       /\ \A k \in 1..Len(boids) : k # idx => boids'[k] = boids[k]
  /\ (pc = "update" /\ idx > Len(boids)) =>
       (pc' # "update" /\ idx = Len(boids) + 1 /\ boids' = boids)

C9_InPlaceOncePerTick == [][C9_Step]_vars

\* the tick is over and every boid of a flock of several was moved
C9_Witness ==
  /\ TickOver
  /\ Len(boids) > 1
  /\ \A k \in 1..Len(boids) :
       /\ boids[k].pos_ # tickStart[k].pos_
       /\ boids[k].col_ = tickStart[k].col_
  /\ \E k \in 1..Len(boids) : boids[k].rot_ # tickStart[k].rot_

====
